---------------------------- MODULE Spec2Model ----------------------------
(***************************************************************************)
(* A model of gobuffer: a growable, checkpointable FIFO buffer made of     *)
(* fixed-size rows.  The repository holds two revisions of buffer.go:      *)
(*   - the Next/Consume revision (src/unnamed/part_000), and               *)
(*   - the Read/Unread revision (src/buffer.go).                           *)
(* Write, State, Rollback, Commit, Grow and the position arithmetic are    *)
(* the same code in both.  The variable api says which revision a          *)
(* behaviour runs; the read operations are guarded by it.                  *)
(*                                                                         *)
(* A Go run-time panic (index or slice bound out of range) ends the        *)
(* program: it sets fault, and no operation is enabled afterwards.  The    *)
(* program starts without a buffer (fault is set then, too) and calls      *)
(* NewWithSize once; a call that fails leaves it without one.              *)
(*                                                                         *)
(* The position arithmetic is also run on its own, as the repository's     *)
(* TestBufferPos does: a position b advanced by a sequence of Move calls.  *)
(***************************************************************************)
EXTENDS Integers, Sequences, FiniteSets

VARIABLES
    api,        \* which revision of buffer.go: "NextConsume" or "ReadUnread"
    b,          \* TestBufferPos: the position under test
    moved,      \* TestBufferPos: the last Move call (the position it was called on, its steps)
    rowSize,    \* Buffer.rowSize
    startRow,   \* Buffer.startRow
    buffers,    \* Buffer.buffers: a sequence of rows, each a sequence of rowSize elements
    read,       \* Buffer.read  (a position)
    write,      \* Buffer.write (a position)
    state,      \* the State value the caller holds (the zero State until State() is called)
    ret,        \* what the last operation returned
    fault,      \* TRUE while there is no usable buffer: none was made yet, or an operation panicked
    written,    \* history: every element passed to Write, in call order
    nAdv,       \* history: read-advances performed while an element was present
    nCommit,    \* history: Commit calls that completed
    overran,    \* history: Consume was called while no element was present
    rewound,    \* history: Unread or a successful Rollback was called
    stateCommit, \* history: the value of nCommit when the held State was captured
    nRemoved,   \* history: rows removed from the front of buffers by all Commit calls
    seen        \* history: stream index |-> the element Read returned there, since the last Commit

bufVars == <<rowSize, startRow, buffers, read, write>>
histVars == <<written, nAdv, nCommit, overran, rewound, stateCommit, nRemoved, seen>>
posVars == <<b, moved>>
vars == <<api, b, moved, rowSize, startRow, buffers, read, write, state, ret, fault,
          written, nAdv, nCommit, overran, rewound, stateCommit, nRemoved, seen>>

---------------------------------------------------------------------------
(* Bounds of the model. *)

MaxWrites == 3      \* Write calls in a behaviour
MaxOverrun == 1     \* how far Consume may run the read position beyond MaxWrites
MaxAdvances == 3    \* read-advances over an element in a behaviour (re-reads included)
MaxCommits == 2     \* Commit calls in a behaviour
MaxSteps == 4       \* TestBufferPos: the largest |steps| passed to Move
MaxPos == 8         \* TestBufferPos: the largest absolute position moved to

(* The inputs of the operations. *)
RowSizes == {-1, 0, 1, 2}   \* NewWithSize's rowSize
RowCounts == {-1, 0, 1, 2}  \* NewWithSize's rows
GrowSizes == {0, 1, 3}  \* the sizes passed to a direct Grow call
PosRowSizes == {1, 2, 3}        \* TestBufferPos: the row size of the position
Steps == (-MaxSteps)..MaxSteps  \* TestBufferPos: the steps passed to Move

(* The element type T is instantiated with the integers; Zero is T's zero  *)
(* value.  Buffer[T any] never inspects an element, so the k-th Write call *)
(* is given the element k: every written element differs from every other *)
(* and from Zero, and a read of the wrong slot always shows.               *)
Zero == 0
NextElement == Len(written) + 1

---------------------------------------------------------------------------
(* position *)

position(rs, row, col) == [rowSize |-> rs, Row |-> row, Col |-> col]

AbsolutePos(p) == p.Row * p.rowSize + p.Col

\* a Move without the clamp at 0
MoveNoClamp(p, steps) ==
    LET absPos == AbsolutePos(p) + steps
    IN  [p EXCEPT !.Row = absPos \div p.rowSize, !.Col = absPos % p.rowSize]

\* a Move that forgets to carry the column into the row
MoveNoCarry(p, steps) ==
    LET absPos0 == AbsolutePos(p) + steps
        absPos == IF absPos0 < 0 THEN 0 ELSE absPos0
    IN  [p EXCEPT !.Col = absPos % p.rowSize]

Move(p, steps) ==
    LET absPos0 == AbsolutePos(p) + steps
        absPos == IF absPos0 < 0 THEN 0 ELSE absPos0
    IN  [p EXCEPT !.Row = absPos \div p.rowSize, !.Col = absPos % p.rowSize]

(* State *)

\* a newState that does not mark the State as initialised
newStateNoInit(r, w) == [read |-> r, write |-> w, init |-> FALSE]

newState(r, w) == [read |-> r, write |-> w, init |-> TRUE]

\* State{}: Go's zero value of State (every field zero, init false)
ZeroState == [read |-> position(0, 0, 0), write |-> position(0, 0, 0), init |-> FALSE]

zero(s) == ~s.init

---------------------------------------------------------------------------
(* Buffer helpers *)

Buffered == AbsolutePos(write) - AbsolutePos(read)

\* bufferPos returns (row, col) of a position relative to the stored rows
bufferPos(pos) == <<pos.Row - startRow, pos.Col>>

\* make([]T, rowSize)
NewRow(rs) == [i \in 1..rs |-> Zero]

\* Go's integer division truncates towards zero
GoDiv(x, y) == IF x >= 0 THEN x \div y ELSE -((-x) \div y)

\* the result of Grow's loop: for i := len(buffers); i <= rows; i++ { append }
RECURSIVE GrowLoop(_, _, _, _)
GrowLoop(bufs, i, rows, rs) ==
    IF i <= rows THEN GrowLoop(Append(bufs, NewRow(rs)), i + 1, rows, rs) ELSE bufs

\* a Grow whose loop starts at 0 instead of at the number of stored rows
GrownFromZero(bufs, size, rs) == GrowLoop(bufs, 0, GoDiv(size, rs), rs)

Grown(bufs, size, rs) == GrowLoop(bufs, Len(bufs), GoDiv(size, rs), rs)

\* buffers[row][col] is inside the stored rows (Go indexes from 0)
InRange(bufs, row, col) == row >= 0 /\ row < Len(bufs) /\ col >= 0 /\ col < Len(bufs[row + 1])

Result(op, elem, ok, err) == [op |-> op, elem |-> elem, ok |-> ok, err |-> err]

\* an operation that returns nothing, and one that panicked before returning
NoResult == Result("none", Zero, FALSE, "nil")
Panicked == Result("none", Zero, FALSE, "panic")

---------------------------------------------------------------------------
(* Construction *)

\* how NewWithSize(rs, rows) ends in revision a: "nil" (a buffer), "error"
\* (buffer.go's returned error) or "panic".  buffer.go does not check rows: a
\* negative rows panics in make([][]T, 0, rows), rows = 0 goes through.
NewWithSizeErr(a, rs, rows) ==
    IF a = "NextConsume"
    THEN IF rs <= 0 THEN "panic" ELSE IF rows <= 0 THEN "panic" ELSE "nil"
    ELSE IF rs <= 0 THEN "error" ELSE IF rows < 0 THEN "panic" ELSE "nil"

\* no buffer: every field reads as Go's zero value
NoBuffer ==
    /\ rowSize = 0
    /\ startRow = 0
    /\ buffers = <<>>
    /\ read = position(0, 0, 0)
    /\ write = position(0, 0, 0)

\* no position is under test
NoMove == [from |-> position(0, 0, 0), steps |-> 0]

\* the program before it calls NewWithSize
Init ==
    /\ api \in {"NextConsume", "ReadUnread"}
    /\ NoBuffer
    /\ fault = TRUE
    /\ b = position(0, 0, 0)
    /\ moved = NoMove
    /\ state = ZeroState
    /\ ret = NoResult
    /\ written = <<>>
    /\ nAdv = 0
    /\ nCommit = 0
    /\ overran = FALSE
    /\ rewound = FALSE
    /\ stateCommit = 0
    /\ nRemoved = 0
    /\ seen = <<>>

---------------------------------------------------------------------------
(* Operations *)

\* NewWithSize(rs, rows), of either revision, called once
NewWithSize(rs, rows) ==
    /\ fault /\ rowSize = 0 /\ ret = NoResult
    /\ IF NewWithSizeErr(api, rs, rows) = "nil"
       THEN /\ rowSize' = rs
            /\ startRow' = 0
            /\ buffers' = Grown(<<>>, rows * rs, rs)
            /\ read' = position(rs, 0, 0)
            /\ write' = position(rs, 0, 0)
            /\ fault' = FALSE
       ELSE UNCHANGED <<bufVars, fault>>
    /\ ret' = Result("NewWithSize", Zero, FALSE, NewWithSizeErr(api, rs, rows))
    /\ UNCHANGED <<api, posVars, state, histVars>>

\* Buffer.Write
Write(element) ==
    /\ ~fault
    /\ Len(written) < MaxWrites
    /\ LET grown == Grown(buffers, AbsolutePos(write) + 1, rowSize)
           row == bufferPos(write)[1]
           col == bufferPos(write)[2]
       IN  IF InRange(grown, row, col)
           THEN /\ buffers' = [grown EXCEPT ![row + 1][col + 1] = element]
                /\ write' = Move(write, 1)
                /\ ret' = NoResult
                /\ fault' = FALSE
           ELSE /\ buffers' = grown
                /\ write' = write
                /\ ret' = Panicked
                /\ fault' = TRUE
    /\ written' = Append(written, element)
    /\ UNCHANGED <<api, posVars, rowSize, startRow, read, state,
                   nAdv, nCommit, overran, rewound, stateCommit, nRemoved, seen>>

\* what Buffer.Next returns in the current state
NextResult ==
    IF Buffered <= 0
    THEN Result("Next", Zero, FALSE, "nil")
    ELSE LET row == bufferPos(read)[1]
             col == bufferPos(read)[2]
         IN  IF InRange(buffers, row, col)
             THEN Result("Next", buffers[row + 1][col + 1], TRUE, "nil")
             ELSE Panicked

\* a Next that also consumes the element it returns
NextConsumes ==
    /\ ~fault
    /\ api = "NextConsume"
    /\ ret' = NextResult
    /\ fault' = (NextResult = Panicked)
    /\ read' = IF NextResult.ok THEN Move(read, 1) ELSE read
    /\ UNCHANGED <<api, posVars, rowSize, startRow, buffers, write, state, histVars>>

\* Buffer.Next (Next/Consume revision)
BufferNext ==
    /\ ~fault
    /\ api = "NextConsume"
    /\ ret' = NextResult
    /\ fault' = (NextResult = Panicked)
    /\ UNCHANGED <<api, posVars, bufVars, state, histVars>>

\* Buffer.Consume (Next/Consume revision)
Consume ==
    /\ ~fault
    /\ api = "NextConsume"
    /\ AbsolutePos(read) < MaxWrites + MaxOverrun
    /\ Buffered > 0 => nAdv < MaxAdvances
    /\ read' = Move(read, 1)
    /\ ret' = NoResult
    /\ nAdv' = IF Buffered > 0 THEN nAdv + 1 ELSE nAdv
    /\ overran' = (overran \/ Buffered <= 0)
    /\ UNCHANGED <<api, posVars, rowSize, startRow, buffers, write, state, fault,
                   written, nCommit, rewound, stateCommit, nRemoved, seen>>

\* seen, with the element Read returned at stream index i recorded the first
\* time i is read
Seen(i, element) ==
    IF i \in DOMAIN seen
    THEN seen
    ELSE [j \in DOMAIN seen \cup {i} |-> IF j = i THEN element ELSE seen[j]]

\* a Read that moves the read position before it fetches the element
ReadMovesFirst ==
    /\ ~fault
    /\ api = "ReadUnread"
    /\ Buffered > 0 => nAdv < MaxAdvances
    /\ IF Buffered <= 0
       THEN /\ ret' = Result("Read", Zero, FALSE, "nil")
            /\ UNCHANGED <<read, fault, nAdv, seen>>
       ELSE LET row == bufferPos(Move(read, 1))[1]
                col == bufferPos(Move(read, 1))[2]
            IN  IF InRange(buffers, row, col)
                THEN /\ ret' = Result("Read", buffers[row + 1][col + 1], TRUE, "nil")
                     /\ read' = Move(read, 1)
                     /\ nAdv' = nAdv + 1
                     /\ fault' = FALSE
                     /\ seen' = Seen(AbsolutePos(read), buffers[row + 1][col + 1])
                ELSE /\ ret' = Panicked
                     /\ fault' = TRUE
                     /\ UNCHANGED <<read, nAdv, seen>>
    /\ UNCHANGED <<api, posVars, rowSize, startRow, buffers, write, state,
                   written, nCommit, overran, rewound, stateCommit, nRemoved>>

\* Buffer.Read (Read/Unread revision)
Read ==
    /\ ~fault
    /\ api = "ReadUnread"
    /\ Buffered > 0 => nAdv < MaxAdvances
    /\ IF Buffered <= 0
       THEN /\ ret' = Result("Read", Zero, FALSE, "nil")
            /\ UNCHANGED <<read, fault, nAdv, seen>>
       ELSE LET row == bufferPos(read)[1]
                col == bufferPos(read)[2]
            IN  IF InRange(buffers, row, col)
                THEN /\ ret' = Result("Read", buffers[row + 1][col + 1], TRUE, "nil")
                     /\ read' = Move(read, 1)
                     /\ nAdv' = nAdv + 1
                     /\ fault' = FALSE
                     /\ seen' = Seen(AbsolutePos(read), buffers[row + 1][col + 1])
                ELSE /\ ret' = Panicked
                     /\ fault' = TRUE
                     /\ UNCHANGED <<read, nAdv, seen>>
    /\ UNCHANGED <<api, posVars, rowSize, startRow, buffers, write, state,
                   written, nCommit, overran, rewound, stateCommit, nRemoved>>

\* an Unread that moves the read position back two steps
UnreadTwo ==
    /\ ~fault
    /\ api = "ReadUnread"
    /\ read' = Move(read, -2)
    /\ ret' = NoResult
    /\ rewound' = TRUE
    /\ UNCHANGED <<api, posVars, rowSize, startRow, buffers, write, state, fault,
                   written, nAdv, nCommit, overran, stateCommit, nRemoved, seen>>

\* Buffer.Unread (Read/Unread revision)
Unread ==
    /\ ~fault
    /\ api = "ReadUnread"
    /\ read' = Move(read, -1)
    /\ ret' = NoResult
    /\ rewound' = TRUE
    /\ UNCHANGED <<api, posVars, rowSize, startRow, buffers, write, state, fault,
                   written, nAdv, nCommit, overran, stateCommit, nRemoved, seen>>

\* Buffer.State; the caller keeps the returned value in state
State ==
    /\ ~fault
    /\ state' = newState(read, write)
    /\ ret' = NoResult
    /\ stateCommit' = nCommit
    /\ UNCHANGED <<api, posVars, bufVars, fault, written, nAdv, nCommit, overran, rewound, nRemoved, seen>>

\* a Rollback that checks the State's row before it checks for the zero State
RollbackRowCheckFirst(s) ==
    /\ ~fault
    /\ IF s.read.Row < startRow
       THEN /\ ret' = Result("Rollback", Zero, FALSE, "IllegalStateError")
            /\ UNCHANGED <<read, rewound>>
       ELSE IF zero(s)
       THEN /\ ret' = Result("Rollback", Zero, FALSE, "ZeroStateError")
            /\ UNCHANGED <<read, rewound>>
       ELSE /\ read' = s.read
            /\ ret' = Result("Rollback", Zero, FALSE, "nil")
            /\ rewound' = TRUE
    /\ UNCHANGED <<api, posVars, rowSize, startRow, buffers, write, state, fault,
                   written, nAdv, nCommit, overran, stateCommit, nRemoved, seen>>

\* a Rollback without the zero-State check
RollbackNoZeroCheck(s) ==
    /\ ~fault
    /\ IF s.read.Row < startRow
       THEN /\ ret' = Result("Rollback", Zero, FALSE, "IllegalStateError")
            /\ UNCHANGED <<read, rewound>>
       ELSE /\ read' = s.read
            /\ ret' = Result("Rollback", Zero, FALSE, "nil")
            /\ rewound' = TRUE
    /\ UNCHANGED <<api, posVars, rowSize, startRow, buffers, write, state, fault,
                   written, nAdv, nCommit, overran, stateCommit, nRemoved, seen>>

\* a Rollback without the check against startRow
RollbackNoRowCheck(s) ==
    /\ ~fault
    /\ IF zero(s)
       THEN /\ ret' = Result("Rollback", Zero, FALSE, "ZeroStateError")
            /\ UNCHANGED <<read, rewound>>
       ELSE /\ read' = s.read
            /\ ret' = Result("Rollback", Zero, FALSE, "nil")
            /\ rewound' = TRUE
    /\ UNCHANGED <<api, posVars, rowSize, startRow, buffers, write, state, fault,
                   written, nAdv, nCommit, overran, stateCommit, nRemoved, seen>>

\* a Rollback that also resets the write position to the State's
RollbackResetsWrite(s) ==
    /\ ~fault
    /\ IF zero(s)
       THEN /\ ret' = Result("Rollback", Zero, FALSE, "ZeroStateError")
            /\ UNCHANGED <<read, write, rewound>>
       ELSE IF s.read.Row < startRow
       THEN /\ ret' = Result("Rollback", Zero, FALSE, "IllegalStateError")
            /\ UNCHANGED <<read, write, rewound>>
       ELSE /\ read' = s.read
            /\ write' = s.write
            /\ ret' = Result("Rollback", Zero, FALSE, "nil")
            /\ rewound' = TRUE
    /\ UNCHANGED <<api, posVars, rowSize, startRow, buffers, state, fault,
                   written, nAdv, nCommit, overran, stateCommit, nRemoved, seen>>

\* Buffer.Rollback(s)
Rollback(s) ==
    /\ ~fault
    /\ IF zero(s)
       THEN /\ ret' = Result("Rollback", Zero, FALSE, "ZeroStateError")
            /\ UNCHANGED <<read, rewound>>
       ELSE IF s.read.Row < startRow
       THEN /\ ret' = Result("Rollback", Zero, FALSE, "IllegalStateError")
            /\ UNCHANGED <<read, rewound>>
       ELSE /\ read' = s.read
            /\ ret' = Result("Rollback", Zero, FALSE, "nil")
            /\ rewound' = TRUE
    /\ UNCHANGED <<api, posVars, rowSize, startRow, buffers, write, state, fault,
                   written, nAdv, nCommit, overran, stateCommit, nRemoved, seen>>

\* Commit's row, _ := b.bufferPos(b.read), and the low bound of its slice
\* expression b.buffers[row-b.startRow:]
CommitRow == bufferPos(read)[1]
CommitLow == CommitRow - startRow

\* a Commit that also moves the read position to the start of its row
CommitMovesRead ==
    /\ ~fault
    /\ nCommit < MaxCommits
    /\ IF CommitLow >= 0 /\ CommitLow <= Len(buffers)
       THEN /\ buffers' = SubSeq(buffers, CommitLow + 1, Len(buffers))
            /\ startRow' = startRow + CommitRow
            /\ read' = position(rowSize, read.Row, 0)
            /\ ret' = NoResult
            /\ nCommit' = nCommit + 1
            /\ nRemoved' = nRemoved + CommitLow
            /\ seen' = <<>>
            /\ fault' = FALSE
       ELSE /\ ret' = Panicked
            /\ fault' = TRUE
            /\ UNCHANGED <<buffers, startRow, read, nCommit, nRemoved, seen>>
    /\ UNCHANGED <<api, posVars, rowSize, write, state,
                   written, nAdv, overran, rewound, stateCommit>>

\* Buffer.Commit
Commit ==
    /\ ~fault
    /\ nCommit < MaxCommits
    /\ IF CommitLow >= 0 /\ CommitLow <= Len(buffers)
       THEN /\ buffers' = SubSeq(buffers, CommitLow + 1, Len(buffers))
            /\ startRow' = startRow + CommitRow
            /\ ret' = NoResult
            /\ nCommit' = nCommit + 1
            /\ nRemoved' = nRemoved + CommitLow
            /\ seen' = <<>>
            /\ fault' = FALSE
       ELSE /\ ret' = Panicked
            /\ fault' = TRUE
            /\ UNCHANGED <<buffers, startRow, nCommit, nRemoved, seen>>
    /\ UNCHANGED <<api, posVars, rowSize, read, write, state,
                   written, nAdv, overran, rewound, stateCommit>>

\* Buffer.Grow(size)
Grow(size) ==
    /\ ~fault
    /\ buffers' = Grown(buffers, size, rowSize)
    /\ ret' = NoResult
    /\ UNCHANGED <<api, posVars, rowSize, startRow, read, write, state, fault, histVars>>

Next ==
    \/ \E rs \in RowSizes, rows \in RowCounts : NewWithSize(rs, rows)
    \/ \E e \in {NextElement} : Write(e)
    \/ BufferNext
    \/ Consume
    \/ Read
    \/ Unread
    \/ State
    \/ \E s \in {state, ZeroState} : Rollback(s)
    \/ Commit
    \/ \E size \in GrowSizes : Grow(size)

Spec == Init /\ [][Next]_vars

---------------------------------------------------------------------------
(* TestBufferPos: a position, starting at 0/0, moved step by step.  There  *)
(* is no buffer in this program.                                           *)

PosInit ==
    /\ api = "ReadUnread"
    /\ NoBuffer
    /\ fault = TRUE
    /\ \E rs \in PosRowSizes : b = position(rs, 0, 0)
    /\ moved = NoMove
    /\ state = ZeroState
    /\ ret = NoResult
    /\ written = <<>>
    /\ nAdv = 0
    /\ nCommit = 0
    /\ overran = FALSE
    /\ rewound = FALSE
    /\ stateCommit = 0
    /\ nRemoved = 0
    /\ seen = <<>>

\* b = b.Move(steps)
MoveStep(steps) ==
    /\ AbsolutePos(b) + steps <= MaxPos
    /\ b' = Move(b, steps)
    /\ moved' = [from |-> b, steps |-> steps]
    /\ UNCHANGED <<api, bufVars, state, ret, fault, histVars>>

PosNext == \E steps \in Steps : MoveStep(steps)

PosSpec == PosInit /\ [][PosNext]_vars

---------------------------------------------------------------------------
(* What the properties below speak about. *)

\* the element written at stream index i (from 0), or -1 when none was
WrittenAt(i) == IF i >= 0 /\ i < Len(written) THEN written[i + 1] ELSE -1

\* the element stored at the slot bufferPos gives stream index i, or -1 when
\* that slot lies outside the stored rows
SlotAt(i) ==
    LET row == (i \div rowSize) - startRow
        col == i % rowSize
    IN  IF InRange(buffers, row, col) THEN buffers[row + 1][col + 1] ELSE -1

\* a read operation returned an element / reported none
ReadOk == ret.op \in {"Next", "Read"} /\ ret.ok
ReadNotOk == ret.op \in {"Next", "Read"} /\ ~ret.ok /\ ret.err = "nil"

\* the stream index of the element the last read returned: Next leaves the
\* read position on it, Read has moved the read position past it
ReadIndex == IF ret.op = "Read" THEN AbsolutePos(read) - 1 ELSE AbsolutePos(read)

\* only Write, Next/Consume over an element, Read, State and Grow so far
PlainRun == ~fault /\ ~overran /\ ~rewound /\ nCommit = 0

---------------------------------------------------------------------------
(* C1: FIFO order.  In a run of Write calls and reads that each find an    *)
(* element (Next then Consume, or Read), the k-th read returns the k-th    *)
(* written element, and a read reports no element only when every written *)
(* element has been read.                                                  *)
FIFOOrder ==
    PlainRun =>
        /\ (ret.op = "Next" /\ ret.ok) => ret.elem = WrittenAt(nAdv)
        /\ (ret.op = "Read" /\ ret.ok) => ret.elem = WrittenAt(nAdv - 1)
        /\ ReadNotOk => nAdv = Len(written)

\* the last written element is read back after the buffer grew past its
\* pre-allocated rows
FIFOOrderWitness ==
    /\ PlainRun /\ ReadOk
    /\ Len(written) = 3 /\ ret.elem = written[3]
    /\ rowSize = 1 /\ Len(buffers) > 3

(* C2: Commit does not change what is read.  In every state reached after  *)
(* one or more Commit calls, a read returns the written element at the     *)
(* read position, in write order, and reports no element only when every  *)
(* written element has been read.  (Stated for runs without Consume on an *)
(* empty buffer, Unread or Rollback.)                                      *)
CommitKeepsReads ==
    (~fault /\ ~overran /\ ~rewound /\ nCommit >= 1) =>
        /\ ReadOk => ret.elem = WrittenAt(ReadIndex)
        /\ ReadNotOk => nAdv = Len(written)

(* C3: the write position never precedes the read position, so Buffered() *)
(* is never negative.                                                      *)
WriteNotBeforeRead == AbsolutePos(write) >= AbsolutePos(read)

(* C4: after any sequence of Write, Next, Consume (or Read) and Commit     *)
(* calls, Buffered() is the number of Write calls minus the number of      *)
(* read-advances performed while an element was present.                  *)
BufferedIsWritesMinusAdvances ==
    (~fault /\ ~rewound) => Buffered = Len(written) - nAdv

(* C5: Consume on a buffer with no unread element loses nothing: once it   *)
(* has been called, Next still returns, with ok, the first written element *)
(* that no read-advance has passed yet.                                    *)
ConsumeOnEmptyLosesNothing ==
    (api = "NextConsume" /\ ~fault /\ overran /\ ~rewound /\ nCommit = 0
        /\ ret.op = "Next" /\ nAdv < Len(written))
    => (ret.ok /\ ret.elem = WrittenAt(nAdv))

(* C6: checkpoint round trip (Next/Consume revision).  Rollback to a State *)
(* captured in any reachable state, with no Commit since the capture,      *)
(* succeeds and restores the captured read position, and from there on     *)
(* every stream index up to the write position reads as the element        *)
(* written at it, those written after the capture included.                *)
RollbackRoundTrip ==
    [][(api = "NextConsume" /\ state.init /\ stateCommit = nCommit /\ Rollback(state))
        => /\ ret'.err = "nil"
           /\ read' = state.read
           /\ \A i \in AbsolutePos(state.read)..(AbsolutePos(write) - 1) :
                  SlotAt(i)' = WrittenAt(i)']_vars

(* C7: Rollback with a State never produced by State() returns             *)
(* ZeroStateError and leaves the read position, the write position and the *)
(* stored elements unchanged.                                              *)
RollbackZeroState ==
    [][\A s \in {state, ZeroState} :
          (zero(s) /\ Rollback(s))
          => /\ ret'.err = "ZeroStateError"
             /\ UNCHANGED <<read, write, buffers, startRow>>]_vars

RollbackZeroStateWitness ==
    /\ ret.op = "Rollback" /\ ret.err = "ZeroStateError"
    /\ AbsolutePos(read) > 0 /\ Buffered > 0

(* C8: Rollback with a captured State whose read row is below startRow     *)
(* returns IllegalStateError and leaves the read position unchanged.       *)
RollbackDiscardedRow ==
    [][(state.init /\ state.read.Row < startRow /\ Rollback(state))
        => /\ ret'.err = "IllegalStateError"
           /\ read' = read]_vars

RollbackDiscardedRowWitness ==
    /\ ret.op = "Rollback" /\ ret.err = "IllegalStateError"
    /\ state.init /\ state.read.Row < startRow /\ nCommit > stateCommit

(* C9: a successful Rollback sets the read position to the State's read    *)
(* position and changes nothing else of the buffer.                        *)
RollbackFrame ==
    [][\A s \in {state, ZeroState} :
          (Rollback(s) /\ ret'.err = "nil")
          => /\ read' = s.read
             /\ UNCHANGED <<write, startRow, buffers, rowSize>>]_vars

\* a rollback over elements written after the capture
RollbackFrameWitness ==
    /\ ret.op = "Rollback" /\ ret.err = "nil"
    /\ read = state.read
    /\ AbsolutePos(write) > AbsolutePos(state.write)
    /\ AbsolutePos(state.write) > AbsolutePos(state.read)

(* C10: a State captured after the most recent Commit can always be rolled *)
(* back: with no later Commit, Rollback returns no error and restores the  *)
(* captured read position.                                                 *)
RollbackAfterCommit ==
    [][(state.init /\ nCommit >= 1 /\ stateCommit = nCommit /\ Rollback(state))
        => /\ ret'.err = "nil"
           /\ read' = state.read]_vars

(* C11: a Commit that completes leaves startRow equal to the row of the    *)
(* read position, has removed exactly the stored rows below that row (over *)
(* all Commit calls: as many rows as the read row's number), and leaves    *)
(* the row of the read position as the first stored row.  (Stated for runs *)
(* without Consume on an empty buffer, Unread or Rollback.)                *)
CommitRemovesBelowRead ==
    [][(Commit /\ ~fault' /\ ~overran /\ ~rewound)
        => /\ startRow' = read.Row
           /\ nRemoved' = read.Row
           /\ Len(buffers') >= 1]_vars

(* C12: Commit is idempotent.  In the state a completed Commit leaves, a    *)
(* second Commit completes (its slice bound is within the stored rows),    *)
(* removes no row (the bound is 0) and leaves startRow as it is (it adds   *)
(* 0); Commit never touches the positions.  (Stated for runs without       *)
(* Consume on an empty buffer, Unread or Rollback.)                        *)
CommitIdempotent ==
    [][(Commit /\ ~fault' /\ ~overran /\ ~rewound)
        => /\ CommitLow' >= 0 /\ CommitLow' <= Len(buffers')
           /\ CommitLow' = 0
           /\ CommitRow' = 0
           /\ UNCHANGED <<read, write>>]_vars

(* C13: Write, Next, Consume, Buffered, Commit and Grow are total: in no    *)
(* reachable state of the Next/Consume revision has one of them failed at  *)
(* run time.  (Stated for runs in which Consume was only called with an    *)
(* element present.)                                                       *)
OperationsTotal == (api = "NextConsume" /\ rowSize > 0 /\ ~overran) => ~fault

(* C14: Next returns ok exactly when the write position is beyond the read *)
(* position, and the element it returns is the one written at the stream   *)
(* index of the read position; with the read position at or past the write *)
(* position it returns not-ok without failing.  (Stated for runs in which  *)
(* Consume was only called with an element present.)                       *)
NextReturnsUnread ==
    [][(BufferNext /\ ~overran)
        => /\ ~fault'
           /\ ret'.ok <=> AbsolutePos(write) > AbsolutePos(read)
           /\ ret'.ok => ret'.elem = WrittenAt(AbsolutePos(read))]_vars

(* C15: Next does not change the buffer: the rows, startRow and both        *)
(* positions are as before, so Buffered() is, and a Next called right after *)
(* would return what this one returned.                                    *)
NextChangesNothing ==
    [][BufferNext
        => /\ UNCHANGED <<rowSize, startRow, buffers, read, write>>
           /\ Buffered' = Buffered
           /\ NextResult' = ret']_vars

\* Next returned an element with more behind it, after a Commit and a Rollback
NextChangesNothingWitness ==
    /\ ret.op = "Next" /\ ret.ok /\ ret = NextResult
    /\ Buffered >= 2 /\ nCommit >= 1 /\ rewound

(* C16: Read returns, with ok, the element written at the stream index of  *)
(* the read position and advances the read position by exactly one when an *)
(* unread element exists; otherwise it returns not-ok and leaves the read  *)
(* position unchanged.                                                     *)
ReadAdvancesByOne ==
    [][Read
        => IF Buffered > 0
           THEN /\ ~fault'
                /\ ret'.ok
                /\ ret'.elem = WrittenAt(AbsolutePos(read))
                /\ AbsolutePos(read') = AbsolutePos(read) + 1
           ELSE /\ ret' = Result("Read", Zero, FALSE, "nil")
                /\ read' = read]_vars

UnreadAfterCommit ==
    [][(Unread /\ nCommit >= 1 /\ read'.Row >= startRow /\ Buffered' > 0)
        => (SlotAt(AbsolutePos(read)) = WrittenAt(AbsolutePos(read)))']_vars

(* C19: Grow is idempotent: after Grow(n), a Grow(m) with m <= n appends   *)
(* no row, so it changes nothing of the buffer.                            *)
GrowIdempotent ==
    [][\A n \in GrowSizes :
          Grow(n) => \A m \in 0..n : Grown(buffers', m, rowSize') = buffers']_vars

\* Grow(3) has appended rows to a fresh buffer of row size 1
GrowIdempotentWitness ==
    /\ ret = NoResult /\ Len(written) = 0
    /\ rowSize = 1 /\ Len(buffers) = 4

(* C20: Grow(n) appends only as far as needed: when the stored capacity    *)
(* (number of rows times rowSize) is already n or more it appends nothing, *)
(* and otherwise it appends rows until the capacity is n or more, and no   *)
(* further.                                                                *)
GrowOnlyAsNeeded ==
    [][\A n \in GrowSizes :
          Grow(n) => IF Len(buffers) * rowSize >= n
                     THEN buffers' = buffers
                     ELSE /\ Len(buffers') * rowSize >= n
                          /\ (Len(buffers') - 1) * rowSize < n]_vars

(* C21: NewWithSize(rowSize, rows) with rowSize > 0 and rows > 0 returns a  *)
(* buffer of exactly rows rows of rowSize slots each, with the read and    *)
(* the write position at absolute index 0 and startRow 0.                  *)
NewWithSizeExactRows ==
    [][\A rs \in RowSizes, rows \in RowCounts :
          (NewWithSize(rs, rows) /\ rs > 0 /\ rows > 0)
          => /\ ~fault'
             /\ Len(buffers') = rows
             /\ \A i \in 1..Len(buffers') : Len(buffers'[i]) = rs
             /\ AbsolutePos(read') = 0 /\ AbsolutePos(write') = 0
             /\ startRow' = 0]_vars

(* C22: NewWithSize fails and gives no usable buffer whenever rowSize <= 0 *)
(* or rows <= 0; it never puts a default in place of an invalid parameter. *)
NewWithSizeRejects ==
    [][\A rs \in RowSizes, rows \in RowCounts :
          (NewWithSize(rs, rows) /\ (rs <= 0 \/ rows <= 0))
          => (ret'.err # "nil" /\ fault' /\ NoBuffer')]_vars

(* C23: Move clamps at the origin and nowhere else: for a position P with  *)
(* a positive row size and any steps s, P.Move(s).AbsolutePos() is the     *)
(* greater of 0 and P.AbsolutePos() + s.                                   *)
MoveClamps ==
    moved # NoMove =>
        AbsolutePos(b) = IF AbsolutePos(moved.from) + moved.steps < 0
                         THEN 0
                         ELSE AbsolutePos(moved.from) + moved.steps

\* a move back from a position inside the second row or later, beyond the origin
MoveClampsWitness ==
    /\ moved.from.Row >= 1 /\ moved.from.Col >= 1
    /\ AbsolutePos(moved.from) + moved.steps < 0
    /\ b = position(moved.from.rowSize, 0, 0)

(* C24: in every state reached by Write, Read, Unread, State, Rollback,   *)
(* Commit and Grow, the row of the read position is at or above startRow,  *)
(* so a read never addresses a removed row.                                *)
ReadRowNotBelowStart == api = "ReadUnread" => read.Row >= startRow

(* C25: in every reachable state, every stream index from the read         *)
(* position up to the write position maps, by bufferPos, to a slot inside  *)
(* the stored rows, and that slot holds the element written at that index. *)
(* (Stated for the Next/Consume revision, in runs in which Consume was     *)
(* only called with an element present.)                                   *)
SlotsHoldWritten ==
    (api = "NextConsume" /\ ~fault /\ ~overran) =>
        \A i \in AbsolutePos(read)..(AbsolutePos(write) - 1) : SlotAt(i) = WrittenAt(i)

(* C26: in every reachable state startRow is the number of rows removed    *)
(* from the front by all Commit calls so far, so the stored row at list    *)
(* position i is the row with number startRow + i.  (Stated for runs in    *)
(* which Consume was only called with an element present.)                 *)
StartRowIsRemovedCount == ~overran => startRow = nRemoved

(* C27: Write(e), in every reachable state, stores e at the stream index   *)
(* of the old write position, advances the write position by exactly one,  *)
(* leaves the read position and startRow unchanged, and changes no other   *)
(* stored element.                                                         *)
WriteFrame ==
    [][\A e \in {NextElement} :
          Write(e)
          => /\ ~fault'
             /\ \A w \in {AbsolutePos(write)} : SlotAt(w)' = e
             /\ AbsolutePos(write') = AbsolutePos(write) + 1
             /\ UNCHANGED <<read, startRow>>
             /\ \A i \in 0..(AbsolutePos(write) - 1) :
                    SlotAt(i) # -1 => SlotAt(i)' = SlotAt(i)]_vars

(* C28: Commit changes only the rows and startRow: the read and the write  *)
(* position are as before, so Buffered() is, and the State value the       *)
(* caller holds is not modified.                                           *)
CommitFrame ==
    [][Commit
        => /\ UNCHANGED <<read, write, rowSize, state>>
           /\ Buffered' = Buffered]_vars

\* rows were removed under a State captured before, with elements unread
CommitFrameWitness ==
    /\ ~fault /\ nRemoved >= 1 /\ Buffered >= 1
    /\ state.init /\ stateCommit < nCommit /\ state.read.Row < startRow
    /\ read.Col = 1

(* C29: State() does not change the buffer, and the State it returns is    *)
(* marked initialised and holds the read and the write position of the     *)
(* call; no other operation changes a State already returned.              *)
StateFrame ==
    [][IF State
       THEN /\ UNCHANGED bufVars
            /\ state'.init
            /\ state'.read = read /\ state'.write = write
       ELSE state' = state]_vars

\* a State captured before a read advance, a Write and a Commit
StateFrameWitness ==
    /\ state.init /\ ~fault
    /\ AbsolutePos(state.read) < AbsolutePos(read)
    /\ AbsolutePos(state.write) < AbsolutePos(write)
    /\ stateCommit < nCommit

(* C30: Rollback has exactly three outcomes, decided in a fixed order:     *)
(* ZeroStateError if the State is uninitialised, otherwise                 *)
(* IllegalStateError if the State's read row is below startRow, otherwise  *)
(* success; so it succeeds exactly when the State is initialised and its   *)
(* read row is at or above startRow.                                       *)
RollbackOutcomes ==
    [][\A s \in {state, ZeroState} :
          Rollback(s)
          => /\ ret'.err = IF ~s.init THEN "ZeroStateError"
                           ELSE IF s.read.Row < startRow THEN "IllegalStateError"
                           ELSE "nil"
             /\ ret'.err = "nil" <=> (s.init /\ s.read.Row >= startRow)]_vars

\* the zero State, whose read row 0 is also below startRow: ZeroStateError wins
RollbackOutcomesWitness ==
    /\ ret.op = "Rollback" /\ ret.err = "ZeroStateError"
    /\ ~state.init /\ startRow >= 1

(* C31: the two read surfaces are equivalent.  Write, State, Rollback,     *)
(* Commit and Grow are the same code in both revisions, so two buffers     *)
(* driven by the same sequence stay equal if each read does the same to    *)
(* equal buffers: in every state, Read returns the element and the ok flag *)
(* Next returns there (and fails where Next fails), leaves the read        *)
(* position where Consume, called only after an ok Next, leaves it, and    *)
(* changes nothing else of the buffer.                                     *)
ReadIsNextThenConsume ==
    [][Read
        => /\ ret'.ok = NextResult.ok
           /\ ret'.elem = NextResult.elem
           /\ ret'.err = NextResult.err
           /\ fault' = (NextResult = Panicked)
           /\ read' = IF NextResult.ok THEN Move(read, 1) ELSE read
           /\ UNCHANGED <<rowSize, startRow, buffers, write>>]_vars

\* Read returned an element, with more unread, after a Commit removed a row
ReadIsNextThenConsumeWitness ==
    /\ ret.op = "Read" /\ ret.ok /\ ~rewound
    /\ nRemoved >= 1 /\ Buffered >= 1 /\ state.init

(* C32: draining terminates exactly.  From a state with Buffered() = n, a  *)
(* consumer that only reads (Read, or Next followed by Consume when ok)    *)
(* gets ok n times, then not-ok, and ends with Buffered() = 0, and gets    *)
(* every unread element: while Buffered() > 0 a read completes with ok and *)
(* the element written at the read position, and the advance lowers        *)
(* Buffered() by exactly one; at Buffered() = 0 a read completes with      *)
(* not-ok and Buffered() stays 0.                                          *)
DrainDelivers ==
    [][/\ Read
            => IF Buffered > 0
               THEN /\ ~fault' /\ ret'.ok
                    /\ ret'.elem = WrittenAt(AbsolutePos(read))
                    /\ Buffered' = Buffered - 1
               ELSE Buffered = 0 => (~fault' /\ ~ret'.ok /\ Buffered' = 0)
       /\ BufferNext
            => IF Buffered > 0
               THEN /\ ~fault' /\ ret'.ok
                    /\ ret'.elem = WrittenAt(AbsolutePos(read))
               ELSE Buffered = 0 => (~fault' /\ ~ret'.ok /\ Buffered' = 0)
       /\ (Consume /\ Buffered > 0) => Buffered' = Buffered - 1]_vars

===========================================================================
